---- MODULE Spec2Model ----
(***************************************************************************)
(* A model of the entropy analyzer of src/main.py: calculate_entropy (the  *)
(* Shannon entropy of a byte string), analyze_file (read, score, compare   *)
(* with the threshold), analyze_directory (os.scandir traversal, optional  *)
(* recursion) and the dispatch of main.                                    *)
(*                                                                         *)
(* Floating point numbers are modelled as fixed-point numbers with         *)
(* FracBits fractional bits: the integer v stands for v / Scale.  Every    *)
(* arithmetic step rounds, as the double-precision step it models does.    *)
(***************************************************************************)
EXTENDS Integers, Sequences, FiniteSets, TLC

(***************************************************************************)
(* Bounds of the model.                                                    *)
(***************************************************************************)
\* Fractional bits of the fixed-point model of a float.
FracBits == 12
\* Longest file content enumerated when a single file is analyzed.
MaxLen == 3
\* Symbolic links the operating system follows in one path before ELOOP.
MaxSymlinks == 2

(***************************************************************************)
(* Program constants.                                                      *)
(***************************************************************************)
\* range(256): the byte values the loop of calculate_entropy enumerates.
AlphabetSize == 256

Scale == 2 ^ FracBits

\* parser default of --threshold: 4.5
DefaultThreshold == (9 * Scale) \div 2

\* The byte values file contents are drawn from.
ByteVals == {0, 65, 255}

(***************************************************************************)
(* calculate_entropy, lines 29-47.                                         *)
(***************************************************************************)
\* A plausible slip: counting from the second byte on (data[1:].count(x)).
CountSkipsFirst(data, x) == Cardinality({i \in DOMAIN data : i > 1 /\ data[i] = x})

\* data.count(x)
CountOf(data, x) == Cardinality({i \in DOMAIN data : data[i] = x})

\* A plausible slip: dividing by len(data) + 1.
ProbOffByOne(c, n) == (2 * c * Scale + (n + 1)) \div (2 * (n + 1))

\* float(c) / n, rounded to the nearest representable value.
Prob(c, n) == (2 * c * Scale + n) \div (2 * n)

\* The fractional bits of log2(y / Scale) for Scale <= y < 2 * Scale, by
\* repeated squaring; bit is the weight of the next bit.
RECURSIVE Log2Frac(_, _, _)
Log2Frac(y, bit, acc) ==
    IF bit = 0 THEN acc
    ELSE LET y2 == (y * y) \div Scale
         IN  IF y2 >= 2 * Scale
             THEN Log2Frac(y2 \div 2, bit \div 2, acc + bit)
             ELSE Log2Frac(y2, bit \div 2, acc)

\* math.log(p, 2) for 0 < p <= 1 (1 <= p <= Scale in fixed point): p is
\* doubled e times into [1, 2), and log2(p) = -e + log2 of the mantissa.
RECURSIVE Log2Norm(_, _)
Log2Norm(p, e) ==
    IF p >= Scale THEN Log2Frac(p, Scale \div 2, 0) - e * Scale
    ELSE Log2Norm(2 * p, e + 1)

Log2(p) == Log2Norm(p, 0)

\* - p_x * math.log(p_x, 2), rounded.
Term(p) == ((0 - p * Log2(p)) + Scale \div 2) \div Scale

\* One iteration of the loop body, lines 44-46: what x adds to entropy.
EntropyStep(data, x) ==
    LET p_x == Prob(CountOf(data, x), Len(data))
    IN  IF p_x > 0 THEN Term(p_x) ELSE 0

\* for x in range(256): entropy += ...  The terms of lo..hi added up.  The
\* sum of fixed-point numbers is exact, so the order of the additions does
\* not change it; the range is halved to keep the evaluation shallow.
RECURSIVE EntropyLoop(_, _, _)
EntropyLoop(data, lo, hi) ==
    IF lo = hi THEN EntropyStep(data, lo)
    ELSE LET mid == (lo + hi) \div 2
         IN  EntropyLoop(data, lo, mid) + EntropyLoop(data, mid + 1, hi)

calculate_entropy(data) ==
    IF Len(data) = 0 THEN 0 ELSE EntropyLoop(data, 0, AlphabetSize - 1)

\* A plausible slip: an inclusive comparison.
FlaggedInclusive(entropy, t) == entropy >= t

\* if entropy > threshold
Flagged(entropy, t) == entropy > t


(***************************************************************************)
(* The file system the scan runs against.  A shape fixes what the path     *)
(* argument names: one regular file ("file"), a directory tree ("tree"), a *)
(* directory holding a symbolic link to itself ("loop"), or nothing        *)
(* ("none").  A path is the sequence of the names from the argument down.  *)
(***************************************************************************)
Shapes == {"file", "tree", "loop", "none"}

RootName(sh) == IF sh = "file" THEN "f" ELSE "d"

\* What os.scandir yields for a directory.
EntriesOf(sh, dir) ==
    IF sh = "tree"
    THEN CASE dir = "d"    -> {"a", "b", "sub"}
           [] dir = "sub"  -> {"deep", "s"}
           [] dir = "deep" -> {"e"}
           [] OTHER        -> {}
    ELSE IF sh = "loop" /\ dir = "d" THEN {"a", "lnk"} ELSE {}

\* "s" is neither a regular file nor a directory (a socket, a broken link).
Kind(name) ==
    CASE name \in {"f", "a", "b", "e"} -> "file"
      [] name \in {"d", "sub", "deep"}      -> "dir"
      [] name = "lnk"                       -> "link"
      [] OTHER                              -> "special"

FilesOf(sh) ==
    CASE sh = "file" -> {"f"}
      [] sh = "tree" -> {"a", "b", "e"}
      [] sh = "loop" -> {"a"}
      [] OTHER       -> {}

DirsOf(sh) ==
    CASE sh = "tree" -> {"d", "sub", "deep"}
      [] sh = "loop" -> {"d"}
      [] OTHER       -> {}

Last(p) == p[Len(p)]

\* The directory a path names: "lnk" is a symbolic link to "d".
Resolve(p) == IF Kind(Last(p)) = "link" THEN "d" ELSE Last(p)

LinkCount(p) == Cardinality({i \in DOMAIN p : Kind(p[i]) = "link"})

\* stat() of a path through more than MaxSymlinks links fails with ELOOP,
\* an OSError that DirEntry.is_file() does not catch.
StatFails(p) == LinkCount(p) > MaxSymlinks

BoundedSeq(S, n) == UNION {[1..k -> S] : k \in 0..n}

\* 256 bytes, each value once.
Uniform256 == [i \in 1..AlphabetSize |-> i - 1]

\* 100 bytes of 0x41.
Repeated100 == [i \in 1..100 |-> 65]

\* Contents of the single file of shape "file".
FileContents == BoundedSeq(ByteVals, MaxLen) \cup {Uniform256, Repeated100}

\* Contents of the files met in a directory scan: one of entropy 0, one of
\* entropy 1.
DirContents == {<<65, 65>>, <<0, 255>>}

\* Thresholds tried on a single file: every score a content has, the values
\* next to it, and the default.
FileThresholds ==
    {calculate_entropy(d) + k : d \in FileContents, k \in {0 - 1, 0, 1}}
        \cup {DefaultThreshold}

\* The threshold of a directory scan: 0.5, between the two scores.
DirThresholds == {Scale \div 2}

VARIABLES
    shape,       \* what the path argument names
    unreadable,  \* the files whose open() or read() raises
    unlistable,  \* the directories whose listing raises
    threshold,   \* args.threshold
    recursive,   \* args.recursive
    pc,          \* the statement the program is at
    stack,       \* the active calls of analyze_directory, outermost first
    filepath,    \* analyze_file: its argument
    handles,     \* the file objects open
    data,        \* analyze_file: the bytes read
    exc,         \* the exception the with block is left with
    entropy,     \* analyze_file: the score
    ret,         \* the value the last call of analyze_file returned
    log,         \* the records handed to logging, oldest first
    visited      \* the paths os.scandir was called on

vars == <<shape, unreadable, unlistable, threshold, recursive, pc, stack,
          filepath, handles, data, exc, entropy, ret, log, visited>>

args == <<shape, unreadable, unlistable, threshold, recursive>>

Top == stack[Len(stack)]

Pop == SubSeq(stack, 1, Len(stack) - 1)

Readable(p) == Last(p) \notin unreadable

Listable(p) == Resolve(p) \notin unlistable

\* Where control goes when analyze_file returns: into the loop of the
\* calling analyze_directory, or back to main, which ends.
AfterFile == IF stack = <<>> THEN "done" ELSE "iter"

\* A record of logging.error; e is the text of the exception where the
\* message has it ("" where it has none).
ErrorRecord(msg, p, e) == [level |-> "ERROR", msg |-> msg, path |-> p, e |-> e]

(***************************************************************************)
(* analyze_file, lines 50-75.                                              *)
(***************************************************************************)
\* A plausible slip: no handler, the exception leaves analyze_file.  The
\* handler of the calling analyze_directory catches it and ends that
\* directory's loop; main has none.
HandleFileErrorRaises(kind) ==
    /\ pc' = IF stack = <<>> THEN "crashed"
             ELSE IF Len(stack) = 1 THEN "done" ELSE "iter"
    /\ stack' = IF stack = <<>> THEN stack ELSE Pop
    /\ log' = IF stack = <<>> THEN log
              ELSE Append(log, ErrorRecord("Error scanning directory", Top.path, kind))
    /\ UNCHANGED ret

\* A plausible slip: only FileNotFoundError is handled; any other error
\* leaves analyze_file as in HandleFileErrorRaises.
HandleFileErrorOnlyNotFound(kind) ==
    IF kind = "ENOENT"
    THEN /\ log' = Append(log, ErrorRecord("File not found", filepath, ""))
         /\ ret' = FALSE
         /\ pc' = AfterFile
         /\ UNCHANGED stack
    ELSE HandleFileErrorRaises(kind)

\* except FileNotFoundError / except IOError, lines 70-75.  kind is the
\* error: "ENOENT" is a FileNotFoundError, any other an OSError.
HandleFileError(kind) ==
    /\ log' = Append(log, IF kind = "ENOENT"
                          THEN ErrorRecord("File not found", filepath, "")
                          ELSE ErrorRecord("Error reading file", filepath, kind))
    /\ ret' = FALSE
    /\ pc' = AfterFile
    /\ UNCHANGED stack

\* open(filepath, "rb"), line 62.
FileOpenOk ==
    /\ pc = "open"
    /\ handles' = handles \cup {filepath}
    /\ pc' = "read"
    /\ UNCHANGED <<args, stack, filepath, data, exc, entropy, ret, log, visited>>

\* open raises: the file is gone, or may not be opened.
FileOpenFail ==
    /\ pc = "open"
    /\ ~Readable(filepath)
    /\ \E kind \in {"ENOENT", "EACCES"} : HandleFileError(kind)
    /\ UNCHANGED <<args, filepath, handles, data, exc, entropy, visited>>

\* f.read(), line 63.
FileReadOk ==
    /\ pc = "read"
    /\ Readable(filepath)
    /\ data' \in (IF shape = "file" THEN FileContents ELSE DirContents)
    /\ exc' = "none"
    /\ pc' = "exit"
    /\ UNCHANGED <<args, stack, filepath, handles, entropy, ret, log, visited>>

\* f.read() raises.
FileReadError ==
    /\ pc = "read"
    /\ ~Readable(filepath)
    /\ exc' = "EIO"
    /\ pc' = "exit"
    /\ UNCHANGED <<args, stack, filepath, handles, data, entropy, ret, log, visited>>

\* The with block is left normally: f is closed.
WithExitOk ==
    /\ pc = "exit"
    /\ exc = "none"
    /\ handles' = handles \ {filepath}
    /\ pc' = "score"
    /\ UNCHANGED <<args, stack, filepath, data, exc, entropy, ret, log, visited>>

\* A plausible slip: f.read() outside a with block, f.close() after it.
WithExitErrorLeaks ==
    /\ pc = "exit"
    /\ exc # "none"
    /\ exc' = "none"
    /\ HandleFileError(exc)
    /\ UNCHANGED <<args, filepath, handles, data, entropy, visited>>

\* The with block is left by the exception of f.read(): f is closed, then
\* the handler of line 73 runs.
WithExitError ==
    /\ pc = "exit"
    /\ exc # "none"
    /\ handles' = handles \ {filepath}
    /\ exc' = "none"
    /\ HandleFileError(exc)
    /\ UNCHANGED <<args, filepath, data, entropy, visited>>

\* Lines 64-69: score, log, compare, return.
Score ==
    /\ pc = "score"
    /\ entropy' = calculate_entropy(data)
    /\ LET debug == [level |-> "DEBUG", msg |-> "Entropy", path |-> filepath,
                     entropy |-> entropy']
           warning == [level |-> "WARNING", msg |-> "exceeds entropy threshold",
                       path |-> filepath, threshold |-> threshold,
                       entropy |-> entropy']
       IN  IF Flagged(entropy', threshold)
           THEN log' = log \o <<debug, warning>> /\ ret' = TRUE
           ELSE log' = Append(log, debug) /\ ret' = FALSE
    /\ pc' = AfterFile
    /\ UNCHANGED <<args, stack, filepath, handles, data, exc, visited>>

(***************************************************************************)
(* main, lines 151-156, called with a path that names a regular file.      *)
(***************************************************************************)
MainFile ==
    /\ pc = "main"
    /\ shape = "file"
    /\ filepath' = <<RootName(shape)>>
    /\ pc' = "open"
    /\ UNCHANGED <<args, stack, handles, data, exc, entropy, ret, log, visited>>

FileInit ==
    /\ shape = "file"
    /\ unreadable \in SUBSET FilesOf("file")
    /\ unlistable = {}
    /\ threshold \in FileThresholds
    /\ recursive = FALSE
    /\ pc = "main"
    /\ stack = <<>>
    /\ filepath = <<>>
    /\ handles = {}
    /\ data = <<>>
    /\ exc = "none"
    /\ entropy = 0
    /\ ret = FALSE
    /\ log = <<>>
    /\ visited = {}

FileNext ==
    \/ MainFile
    \/ FileOpenOk
    \/ FileOpenFail
    \/ FileReadOk
    \/ FileReadError
    \/ WithExitOk
    \/ WithExitError
    \/ Score

FileSpec == FileInit /\ [][FileNext]_vars

(***************************************************************************)
(* analyze_directory, lines 78-96.  A frame of stack is one active call:   *)
(* its dirpath, the entries os.scandir has yet to yield, and whether the   *)
(* listing is one that fails while it is iterated.                         *)
(***************************************************************************)
Frame(p, todo, failing) == [path |-> p, todo |-> todo, failing |-> failing]

\* Where control goes when analyze_directory returns.
AfterDir == IF Len(stack) = 1 THEN "done" ELSE "iter"

\* The calls with entry e taken from the iterator of the innermost one.
Taken(e) == [stack EXCEPT ![Len(stack)].todo = @ \ {e}]

\* entry.is_file() and entry.is_dir(): both follow a symbolic link.
IsFile(p) == Kind(Last(p)) = "file"

IsDir(p) == Kind(Last(p)) \in {"dir", "link"}

\* A plausible slip: the flag is not consulted.
ShouldRecurseAlways(isdir) == isdir

\* elif entry.is_dir() and recursive, line 91.
ShouldRecurse(isdir) == isdir /\ recursive

\* A plausible slip: no handler, the exception leaves analyze_directory and
\* every caller up to main.
HandleDirErrorRaises(kind) ==
    /\ log' = log
    /\ stack' = <<>>
    /\ pc' = "crashed"

\* except FileNotFoundError / except OSError, lines 93-96: log and return.
HandleDirError(kind) ==
    /\ log' = Append(log, IF kind = "ENOENT"
                          THEN ErrorRecord("Directory not found", Top.path, "")
                          ELSE ErrorRecord("Error scanning directory", Top.path, kind))
    /\ stack' = Pop
    /\ pc' = AfterDir

\* os.scandir(dirpath), line 88, of a directory that can be listed.
ScandirOk ==
    /\ pc = "scandir"
    /\ Listable(Top.path)
    /\ stack' = [stack EXCEPT ![Len(stack)].todo = EntriesOf(shape, Resolve(Top.path))]
    /\ visited' = visited \cup {Top.path}
    /\ pc' = "iter"
    /\ UNCHANGED <<args, filepath, handles, data, exc, entropy, ret, log>>

\* os.scandir raises: the directory is gone, or may not be read.
ScandirFail ==
    /\ pc = "scandir"
    /\ ~Listable(Top.path)
    /\ \E kind \in {"ENOENT", "EACCES"} : HandleDirError(kind)
    /\ visited' = visited \cup {Top.path}
    /\ UNCHANGED <<args, filepath, handles, data, exc, entropy, ret>>

\* os.scandir opens a listing that raises while it is iterated.
ScandirFailing ==
    /\ pc = "scandir"
    /\ ~Listable(Top.path)
    /\ stack' = [stack EXCEPT ![Len(stack)] =
                    Frame(Top.path, EntriesOf(shape, Resolve(Top.path)), TRUE)]
    /\ visited' = visited \cup {Top.path}
    /\ pc' = "iter"
    /\ UNCHANGED <<args, filepath, handles, data, exc, entropy, ret, log>>

\* The next entry is a regular file: analyze_file(entry.path, threshold),
\* lines 89-90.
IterFile ==
    /\ pc = "iter"
    /\ \E e \in Top.todo :
          /\ IsFile(Top.path \o <<e>>)
          /\ stack' = Taken(e)
          /\ filepath' = Top.path \o <<e>>
    /\ pc' = "open"
    /\ UNCHANGED <<args, handles, data, exc, entropy, ret, log, visited>>

\* The next entry is a directory and the scan is recursive:
\* analyze_directory(entry.path, threshold, recursive), lines 91-92.
IterRecurse ==
    /\ pc = "iter"
    /\ \E e \in Top.todo :
          /\ ~StatFails(Top.path \o <<e>>)
          /\ ~IsFile(Top.path \o <<e>>)
          /\ ShouldRecurse(IsDir(Top.path \o <<e>>))
          /\ stack' = Append(Taken(e), Frame(Top.path \o <<e>>, {}, FALSE))
    /\ pc' = "scandir"
    /\ UNCHANGED <<args, filepath, handles, data, exc, entropy, ret, log, visited>>

\* The next entry is neither analyzed nor entered: the loop goes on.
IterSkip ==
    /\ pc = "iter"
    /\ \E e \in Top.todo :
          /\ ~StatFails(Top.path \o <<e>>)
          /\ ~IsFile(Top.path \o <<e>>)
          /\ ~ShouldRecurse(IsDir(Top.path \o <<e>>))
          /\ stack' = Taken(e)
    /\ pc' = "iter"
    /\ UNCHANGED <<args, filepath, handles, data, exc, entropy, ret, log, visited>>

\* entry.is_file() raises on the next entry (ELOOP), line 89.
IterStatError ==
    /\ pc = "iter"
    /\ \E e \in Top.todo : StatFails(Top.path \o <<e>>)
    /\ HandleDirError("ELOOP")
    /\ UNCHANGED <<args, filepath, handles, data, exc, entropy, ret, visited>>

\* The iterator raises instead of yielding, line 88.
IterError ==
    /\ pc = "iter"
    /\ Top.failing
    /\ HandleDirError("EIO")
    /\ UNCHANGED <<args, filepath, handles, data, exc, entropy, ret, visited>>

\* The iterator is exhausted: analyze_directory returns.
IterEnd ==
    /\ pc = "iter"
    /\ Top.todo = {}
    /\ ~Top.failing
    /\ stack' = Pop
    /\ pc' = AfterDir
    /\ UNCHANGED <<args, filepath, handles, data, exc, entropy, ret, log, visited>>

(***************************************************************************)
(* main, lines 151-156, called with a path that names a directory, or      *)
(* nothing.                                                                *)
(***************************************************************************)
MainDir ==
    /\ pc = "main"
    /\ shape \in {"tree", "loop"}
    /\ stack' = <<Frame(<<RootName(shape)>>, {}, FALSE)>>
    /\ pc' = "scandir"
    /\ UNCHANGED <<args, filepath, handles, data, exc, entropy, ret, log, visited>>

MainMissing ==
    /\ pc = "main"
    /\ shape = "none"
    /\ log' = Append(log, ErrorRecord("Path not found", <<RootName(shape)>>, ""))
    /\ pc' = "done"
    /\ UNCHANGED <<args, stack, filepath, handles, data, exc, entropy, ret, visited>>

Init ==
    /\ shape \in {"tree", "loop", "none"}
    /\ unreadable \in SUBSET FilesOf(shape)
    /\ unlistable \in SUBSET DirsOf(shape)
    /\ threshold \in DirThresholds
    /\ recursive \in BOOLEAN
    /\ pc = "main"
    /\ stack = <<>>
    /\ filepath = <<>>
    /\ handles = {}
    /\ data = <<>>
    /\ exc = "none"
    /\ entropy = 0
    /\ ret = FALSE
    /\ log = <<>>
    /\ visited = {}

Next ==
    \/ MainDir
    \/ MainMissing
    \/ ScandirOk
    \/ ScandirFail
    \/ ScandirFailing
    \/ IterFile
    \/ IterRecurse
    \/ IterSkip
    \/ IterStatError
    \/ IterError
    \/ IterEnd
    \/ FileOpenOk
    \/ FileOpenFail
    \/ FileReadOk
    \/ FileReadError
    \/ WithExitOk
    \/ WithExitError
    \/ Score

Spec == Init /\ [][Next]_vars

(***************************************************************************)
(* What the log tells about a run.                                         *)
(***************************************************************************)
\* The positions of the records of one level about path p.
Records(p, level) == {i \in DOMAIN log : log[i].path = p /\ log[i].level = level}

\* analyze_file has returned from a call that read and scored its file.
Scored == pc = "done" /\ Records(filepath, "DEBUG") # {}

\* The byte strings with the bytes of d in another order.
Reorderings(d) == {[i \in DOMAIN d |-> d[f[i]]] : f \in Permutations(DOMAIN d)}

Reverse(d) == [i \in DOMAIN d |-> d[Len(d) + 1 - i]]

(***************************************************************************)
(* Claims about the scoring of a single file, checked under FileSpec.      *)
(***************************************************************************)

\* C1: for every file read successfully and every threshold, analyze_file
\* returns true exactly when the score it computed is strictly greater than
\* the threshold; a score equal to the threshold is not flagged.
C1_StrictThreshold ==
    Scored =>
        /\ entropy = calculate_entropy(data)
        /\ ret = (entropy > threshold)
        /\ (entropy = threshold => ret = FALSE)

\* A file whose positive score equals the threshold has been analyzed.
C1_Witness ==
    Scored /\ entropy = threshold /\ entropy > 0 /\ ret = FALSE

\* C7: calculate_entropy returns exactly 0 for the empty byte string and for
\* every byte string that repeats one byte value.
C7_ZeroEntropy ==
    (Scored /\ \A i, j \in DOMAIN data : data[i] = data[j]) => entropy = 0

\* A file of MaxLen equal bytes has been scored.
C7_Witness ==
    /\ Scored
    /\ Len(data) = MaxLen
    /\ \A i, j \in DOMAIN data : data[i] = data[j]
    /\ entropy = 0

\* C8: the score depends only on how often each byte value occurs: every
\* reordering of the bytes read has the score of the bytes read, and with it
\* the same verdict under every threshold.
C8_PermutationInvariant ==
    Scored =>
        \A d \in (IF Len(data) <= MaxLen THEN Reorderings(data) ELSE {Reverse(data)}) :
            LET score == calculate_entropy(d)
            IN  score = entropy /\ Flagged(score, threshold) = ret

\* A file of MaxLen bytes that are not all equal and of score above 0 has
\* been scored.
C8_Witness ==
    /\ Scored
    /\ Len(data) = MaxLen
    /\ Reorderings(data) # {data}
    /\ entropy > 0

(***************************************************************************)
(* What the file system holds, for the claims about a directory scan.      *)
(***************************************************************************)
\* The entries of the directory at path p that are regular files.
FileEntries(p) ==
    {p \o <<e>> : e \in {x \in EntriesOf(shape, Resolve(p)) : IsFile(p \o <<x>>)}}

\* Its entries that are directories (or links to one) and can be stat'ed.
SubdirEntries(p) ==
    {p \o <<e>> : e \in {x \in EntriesOf(shape, Resolve(p)) :
                            IsDir(p \o <<x>>) /\ ~StatFails(p \o <<x>>)}}

\* The paths of the directories at and below p.
RECURSIVE DirPathsFrom(_)
DirPathsFrom(p) == {p} \cup UNION {DirPathsFrom(q) : q \in SubdirEntries(p)}

DirPaths ==
    IF shape \in {"tree", "loop"} THEN DirPathsFrom(<<RootName(shape)>>) ELSE {}

\* The directory at p is listed without an error: os.scandir and its
\* iterator do not raise, and no entry fails to be classified.
CleanDir(p) ==
    Listable(p) /\ \A e \in EntriesOf(shape, Resolve(p)) : ~StatFails(p \o <<e>>)

\* So are the scanned directory and every directory on the way down to p.
CleanChain(p) == \A k \in 1..Len(p) : CleanDir(SubSeq(p, 1, k))

\* analyze_file was called on f: it logged a score or an error for it.
Analyzed(f) == \E i \in DOMAIN log : log[i].path = f

InStack(p) == \E k \in DOMAIN stack : stack[k].path = p

\* No directory above p was found missing by the scan: p is still there.
StillThere(p) ==
    \A i \in DOMAIN log :
        ~(log[i].msg = "Directory not found" /\ Len(log[i].path) < Len(p)
            /\ log[i].path = SubSeq(p, 1, Len(log[i].path)))

\* The last call of analyze_file has returned.
FileReturned == filepath # <<>> /\ pc \in {"scandir", "iter", "done"}

(***************************************************************************)
(* Claims about a directory scan, checked under Spec.                      *)
(***************************************************************************)

\* C2: analyze_file on a path that is missing or cannot be opened or read
\* raises nothing: it logs one error for the path, logs no score and no
\* warning for it, and returns false.
C2_FileFailureContained ==
    /\ pc # "crashed"
    /\ \A i \in DOMAIN log :
          (IsFile(log[i].path) /\ ~Readable(log[i].path)) => log[i].level = "ERROR"
    /\ (FileReturned /\ ~Readable(filepath)) =>
          (ret = FALSE /\ Cardinality(Records(filepath, "ERROR")) = 1)

\* analyze_file has returned from a file that was not found, after a file
\* that was flagged.
C2_Witness ==
    /\ FileReturned
    /\ ~Readable(filepath)
    /\ ret = FALSE
    /\ log[Len(log)].path = filepath
    /\ log[Len(log)].msg = "File not found"
    /\ \E i \in DOMAIN log : log[i].level = "WARNING"

\* C3 as stated: without the flag nothing inside a subdirectory is analyzed
\* or reported; with it (and the scanned directory listed without an error),
\* every regular file of every subdirectory that is there and can be listed,
\* at any depth, is analyzed.
C3_Original ==
    /\ ~recursive =>
          /\ visited \subseteq {<<RootName(shape)>>}
          /\ \A i \in DOMAIN log :
                Len(log[i].path) = 1 \/ (Len(log[i].path) = 2 /\ IsFile(log[i].path))
    /\ (recursive /\ pc = "done") =>
          \A p \in DirPaths :
              (Len(p) > 1 /\ CleanDir(<<RootName(shape)>>) /\ CleanDir(p)
                 /\ StillThere(p)) =>
                  \A f \in FileEntries(p) : Analyzed(f)

\* C3 as amended: with the flag, every regular file of every subdirectory
\* that is reached through directories listed without an error (the scanned
\* one, those in between, the subdirectory itself) is analyzed.
C3_RecursionFlag ==
    /\ ~recursive =>
          /\ visited \subseteq {<<RootName(shape)>>}
          /\ \A i \in DOMAIN log :
                Len(log[i].path) = 1 \/ (Len(log[i].path) = 2 /\ IsFile(log[i].path))
    /\ (recursive /\ pc = "done") =>
          \A p \in DirPaths :
              (Len(p) > 1 /\ CleanChain(p)) =>
                  (p \in visited /\ \A f \in FileEntries(p) : Analyzed(f))

\* A recursive scan has ended that analyzed the file two directories down.
C3_Witness ==
    /\ recursive
    /\ pc = "done"
    /\ CleanChain(<<"d", "sub", "deep">>)
    /\ Analyzed(<<"d", "sub", "deep", "e">>)

\* C4: a file that fails does not keep the other files from being analyzed:
\* when the scan ends, every readable regular file of every directory that
\* was listed without an error has its score logged, once.
C4_FileFailureIsolated ==
    /\ pc # "crashed"
    /\ pc = "done" =>
          \A p \in visited :
              CleanDir(p) =>
                  \A f \in FileEntries(p) :
                      Readable(f) => Cardinality(Records(f, "DEBUG")) = 1

\* The scan has ended; in one directory a file failed and a file yielded
\* after it was scored.
C4_Witness ==
    /\ pc = "done"
    /\ \E i, j \in DOMAIN log :
          /\ i < j
          /\ log[i].path = <<"d", "a">> /\ log[i].level = "ERROR"
          /\ log[j].path = <<"d", "b">> /\ log[j].level = "DEBUG"

\* C5: a directory that cannot be listed makes analyze_directory log one
\* error and return; nothing is raised, and every directory that is listed
\* without an error still has all its entries handled: its files analyzed
\* and, in a recursive scan, its subdirectories entered.
C5_DirFailureIsolated ==
    /\ pc # "crashed"
    /\ \A p \in visited :
          /\ CleanDir(p) => Records(p, "ERROR") = {}
          /\ (~CleanDir(p) /\ ~InStack(p)) => Cardinality(Records(p, "ERROR")) = 1
    /\ pc = "done" =>
          \A p \in visited :
              CleanDir(p) =>
                  /\ \A f \in FileEntries(p) : Analyzed(f)
                  /\ recursive => SubdirEntries(p) \subseteq visited

\* The scan has ended; the directory two levels down failed, and a file of
\* the scanned directory was analyzed after that.
C5_Witness ==
    /\ pc = "done"
    /\ CleanDir(<<"d">>)
    /\ CleanDir(<<"d", "sub">>)
    /\ \E i, j \in DOMAIN log :
          /\ i < j
          /\ log[i].path = <<"d", "sub", "deep">> /\ log[i].level = "ERROR"
          /\ log[j].path = <<"d", "a">>

\* C6: when the scan ends, the reporting side has exactly one record for
\* every file that was read, carrying the path, the score and the flagged
\* boolean, and none for a file that failed.
C6_OneVerdictPerFile ==
    pc = "done" =>
        \A p \in visited :
            \A f \in FileEntries(p) :
                LET verdicts == Records(f, "DEBUG") \cup Records(f, "WARNING")
                IN  IF Analyzed(f) /\ Readable(f)
                    THEN /\ Cardinality(verdicts) = 1
                         /\ \A i \in verdicts :
                               {"path", "entropy", "flagged"} \subseteq DOMAIN log[i]
                    ELSE verdicts = {}

\* C9: at most one file object is open; it is open only between open() and
\* the end of the with block, and closed whichever way the block is left.
C9_SingleHandle ==
    /\ Cardinality(handles) <= 1
    /\ pc \in {"read", "exit"} => handles = {filepath}
    /\ pc \notin {"read", "exit"} => handles = {}

\* The next file is about to be opened after a file whose read() raised.
C9_Witness ==
    /\ pc = "open"
    /\ handles = {}
    /\ log # <<>>
    /\ log[Len(log)].level = "ERROR"
    /\ log[Len(log)].e = "EIO"
    /\ IsFile(log[Len(log)].path)

\* C10: a recursive scan ends without an unhandled error and analyzes no
\* regular file more than once (no file is scored twice), also when an entry
\* leads back to an ancestor.
C10_NoFileTwice ==
    /\ pc # "crashed"
    /\ \A f \in FilesOf(shape) :
          Cardinality({i \in DOMAIN log : IsFile(log[i].path) /\ Last(log[i].path) = f
                                            /\ log[i].level = "DEBUG"}) <= 1

\* The part of C10 that holds: each step ends, and so does the scan.
FairSpec == Spec /\ WF_vars(Next)

Termination == <>(pc = "done")

====
